---- MODULE Spec2Model ----
(***************************************************************************)
(* Red/syntax layer of rowan (src/cursor.rs): parented overlay nodes and   *)
(* tokens over an immutable green tree, their navigation, the preorder     *)
(* walks, the token scans and token_at_offset.                             *)
(*                                                                         *)
(* The green tree is a heap of children arrays (Arc<[GreenElement]>).  A   *)
(* GreenNode value is stored by value in a slot of its parent's children   *)
(* array and refers to its own children array; cloning a GreenNode shares  *)
(* the array, so the same array may be reached from several slots.  A      *)
(* pointer to a green element is the slot it is stored in.                 *)
(***************************************************************************)
EXTENDS Integers, Sequences, FiniteSets, TLC

\* ------------------------------------------------------------- bounds ----
NArr == 3        \* children arrays in the green heap
MaxKids == 3     \* children per green node
MaxElems == 3    \* green elements in all arrays together
MaxTokLen == 2   \* text length of a green token

VARIABLES
    heap,   \* the green heap: children array id -> sequence of green elements
    cur,    \* the overlay element the caller holds
    ret,    \* the last call made: operation, receiver, argument and result
    iter,   \* the children iterator the caller is looping over, if any
    walk,   \* the preorder walk the caller is looping over, if any
    scan,   \* the next_token / prev_token loop the caller is running, if any
    kinds,  \* the SyntaxKind of the green element stored at each pointer
    out,    \* the last replace_with call and the green node it returned
    records,    \* the NodeData records allocated: id -> kind, links, strong
    free_list,  \* the thread's FreeList: first_free and len
    handles,    \* the SyntaxNode handles the caller holds: held, kept
    failed      \* a uniqueness or role check of the pool failed fatally

\* The variables of replace_with and of the record pool.
edit_vars == <<kinds, out>>
pool_vars == <<records, free_list, handles, failed>>

vars == <<heap, cur, ret, iter, walk, scan, edit_vars, pool_vars>>

\* ------------------------------------------------------ green layer ----
\* Option<T> is a sequence of length 0 (None) or 1 (Some).
None == <<>>
Some(x) == <<x>>

\* The elements of a sequence.
Range(s) == {s[i] : i \in 1..Len(s)}

\* GreenElement::Token with a text of the given length.
GreenToken(len) == [node |-> FALSE, len |-> len, arr |-> 0]
\* GreenElement::Node whose children are the array arr.
GreenNode(arr) == [node |-> TRUE, len |-> 0, arr |-> arr]

\* The elements a slot of array a may hold: tokens, and nodes over a deeper
\* array (the green tree is acyclic).
SlotValues(a) ==
    {GreenToken(l) : l \in 0..MaxTokLen} \cup {GreenNode(b) : b \in (a+1)..NArr}

RECURSIVE SeqsOfLen(_, _)
SeqsOfLen(S, n) ==
    IF n = 0 THEN {<<>>}
    ELSE {Append(s, x) : s \in SeqsOfLen(S, n - 1), x \in S}

Min(a, b) == IF a <= b THEN a ELSE b

\* The arrays that the nodes of the children sequence s refer to.
ArraysOf(s) == {s[i].arr : i \in {j \in 1..Len(s) : s[j].node}}

\* All heaps of the arrays a..NArr holding at most budget elements, where
\* refd are the arrays that a node of an earlier array refers to.  An array
\* that no node refers to is not part of the tree: it stays empty, and the
\* arrays in use are numbered without gaps.
RECURSIVE HeapsFrom(_, _, _)
HeapsFrom(a, budget, refd) ==
    IF a > NArr THEN {<<>>}
    ELSE IF a \notin refd
    THEN IF \E b \in refd : b > a THEN {}
         ELSE {<<None>> \o h : h \in HeapsFrom(a + 1, budget, refd)}
    ELSE UNION {
           UNION { {<<s>> \o h :
                      h \in HeapsFrom(a + 1, budget - n, refd \cup ArraysOf(s))}
                   : s \in SeqsOfLen(SlotValues(a), n) }
           : n \in 0..Min(MaxKids, budget) }

\* The root green node handed to new_root is the node over array 1.
Heaps == HeapsFrom(1, MaxElems, {1})

\* The GreenNode owned by the root record (Kind::Root(green)) and its address.
RootGreen == GreenNode(1)
RootPtr == [arr |-> 0, idx |-> 0]

\* The address of children()[i] of the green node g (indices from 0).
SlotPtr(g, i) == [arr |-> g.arr, idx |-> i]

\* The green element at an address.
Deref(p) == IF p.arr = 0 THEN RootGreen ELSE heap[p.arr][p.idx + 1]

\* GreenNode::children
Children(g) == heap[g.arr]

\* GreenElement::text_len: a token's text length; a node's cached length,
\* which GreenNode::new sets to the sum of its children's lengths.
RECURSIVE TextLen(_)
TextLen(e) ==
    IF e.node
    THEN LET c == heap[e.arr]
             RECURSIVE sum(_)
             sum(i) == IF i > Len(c) THEN 0 ELSE TextLen(c[i]) + sum(i + 1)
         IN  sum(1)
    ELSE e.len

\* children_from with the offset left where it started.
children_from_fixed_offset(g, start_index, offset) ==
    LET c == heap[g.arr]
    IN  [k \in 1..(Len(c) - start_index) |->
           [element |-> [arr |-> g.arr, idx |-> start_index + k - 1],
            index |-> start_index + k - 1,
            offset |-> offset]]

\* GreenNode::children_from: (element, (index, offset)) for the children from
\* start_index on, the offset advancing by text_len after each element.
children_from(g, start_index, offset) ==
    LET c == Children(g)
        RECURSIVE go(_, _)
        go(index, off) ==
            IF start_index + index >= Len(c) THEN <<>>
            ELSE <<[element |-> SlotPtr(g, start_index + index),
                    index |-> start_index + index,
                    offset |-> off]>>
                 \o go(index + 1, off + TextLen(c[start_index + index + 1]))
    IN  go(0, offset)

\* children_to with the offset decremented after the element is emitted.
children_to_decrement_after(g, end_index, offset) ==
    LET c == heap[g.arr]
        RECURSIVE go(_, _)
        go(index, off) ==
            IF index >= end_index THEN <<>>
            ELSE <<[element |-> [arr |-> g.arr, idx |-> end_index - index - 1],
                    index |-> end_index - index - 1,
                    offset |-> off]>>
                 \o go(index + 1, off - TextLen(c[end_index - index]))
    IN  go(0, offset)

\* GreenNode::children_to: the children before end_index in reverse, the
\* offset decremented by the element's text_len before it is emitted.
children_to(g, end_index, offset) ==
    LET c == Children(g)
        RECURSIVE go(_, _)
        go(index, off) ==
            IF index >= end_index THEN <<>>
            ELSE LET o == off - TextLen(c[end_index - index])
                 IN  <<[element |-> SlotPtr(g, end_index - index - 1),
                        index |-> end_index - index - 1,
                        offset |-> o]>>
                     \o go(index + 1, o)
    IN  go(0, offset)

\* filter_nodes that lets the token elements through.
filter_nodes_keep_all(items) == items

\* filter_nodes: keeps the node-kind elements.
filter_nodes(items) == SelectSeq(items, LAMBDA x : Deref(x.element).node)

\* Iterator::next on a sequence of items still to come.
IterNext(items) == IF items = <<>> THEN None ELSE Some(Head(items))

\* ------------------------------------------------------ overlay layer ----
\* SyntaxNode::new_root: role Root, the green pointer into the record itself.
new_root ==
    [role |-> "Root", parent |-> None, index |-> 0, offset |-> 0,
     green |-> RootPtr]

\* SyntaxNode::new_child
new_child(green, parent, index, offset) ==
    [role |-> "Child", parent |-> Some(parent), index |-> index,
     offset |-> offset, green |-> green]

\* SyntaxToken::new
SyntaxToken_new(parent, index, offset) ==
    [parent |-> parent, index |-> index, offset |-> offset]

NodeElement(node) == [tag |-> "Node", v |-> node]
TokenElement(token) == [tag |-> "Token", v |-> token]

\* SyntaxElement::new: a node overlay for a node element, a token otherwise.
SyntaxElement_new(element, parent, index, offset) ==
    IF Deref(element).node
    THEN NodeElement(new_child(element, parent, index, offset))
    ELSE TokenElement(SyntaxToken_new(parent, index, offset))

\* SyntaxNode::green
green(node) == Deref(node.green)

\* SyntaxNode::text_range
text_range(node) ==
    LET offset == IF node.role = "Child" THEN node.offset ELSE 0
    IN  [start |-> offset, end |-> offset + TextLen(green(node))]

\* SyntaxToken::green: the parent's green child at the stored index; the
\* arm for a node-kind child is unreachable!().
token_green_ptr(token) == SlotPtr(green(token.parent), token.index)
token_green_unreachable(token) ==
    \/ token.index >= Len(Children(green(token.parent)))
    \/ Deref(token_green_ptr(token)).node

\* SyntaxToken::text_range
token_text_range(token) ==
    [start |-> token.offset,
     end |-> token.offset + TextLen(Deref(token_green_ptr(token)))]

\* SyntaxElement::text_range
element_text_range(el) ==
    IF el.tag = "Node" THEN text_range(el.v) ELSE token_text_range(el.v)

\* impl PartialEq for SyntaxNode
NodeEq(a, b) == a.green = b.green /\ text_range(a).start = text_range(b).start

\* Token equality that leaves the parent out.
TokenEq_ignoring_parent(a, b) == a.index = b.index /\ a.offset = b.offset

\* derived PartialEq of SyntaxToken: field by field
TokenEq(a, b) ==
    NodeEq(a.parent, b.parent) /\ a.index = b.index /\ a.offset = b.offset

\* derived PartialEq of SyntaxElement
ElementEq(a, b) ==
    /\ a.tag = b.tag
    /\ IF a.tag = "Node" THEN NodeEq(a.v, b.v) ELSE TokenEq(a.v, b.v)

\* impl Hash for SyntaxNode: what is fed to the hasher.
NodeHash(node) == <<node.green, text_range(node).start>>
\* derived Hash of SyntaxToken and SyntaxElement
TokenHash(token) == <<NodeHash(token.parent), token.index, token.offset>>
ElementHash(el) ==
    IF el.tag = "Node" THEN <<0, NodeHash(el.v)>> ELSE <<1, TokenHash(el.v)>>

\* SyntaxNode::parent
parent(node) == IF node.role = "Root" THEN None ELSE node.parent

\* SyntaxElement::parent
element_parent(el) == IF el.tag = "Node" THEN parent(el.v) ELSE Some(el.v.parent)

\* Option::map over the item of a child iterator.
MapNode(item, p) ==
    IF item = None THEN None
    ELSE Some(new_child(item[1].element, p, item[1].index, item[1].offset))
MapElement(item, p) ==
    IF item = None THEN None
    ELSE Some(SyntaxElement_new(item[1].element, p, item[1].index, item[1].offset))

\* SyntaxNode::next_sibling
next_sibling(node) ==
    IF node.role # "Child" THEN None
    ELSE LET p == node.parent[1]
         IN  MapNode(IterNext(filter_nodes(
                 children_from(green(p), node.index + 1, text_range(node).end))), p)

\* SyntaxNode::next_sibling_or_token
next_sibling_or_token(node) ==
    IF node.role # "Child" THEN None
    ELSE LET p == node.parent[1]
         IN  MapElement(IterNext(
                 children_from(green(p), node.index + 1, text_range(node).end)), p)

\* prev_sibling that counts the offsets down from the end of the node.
prev_sibling_from_own_end(node) ==
    IF node.role # "Child" THEN None
    ELSE LET p == node.parent[1]
         IN  MapNode(IterNext(filter_nodes(
                 children_to(green(p), node.index, text_range(node).end))), p)

\* SyntaxNode::prev_sibling
prev_sibling(node) ==
    IF node.role # "Child" THEN None
    ELSE LET p == node.parent[1]
         IN  MapNode(IterNext(filter_nodes(
                 children_to(green(p), node.index, text_range(node).start))), p)

\* SyntaxNode::prev_sibling_or_token
prev_sibling_or_token(node) ==
    IF node.role # "Child" THEN None
    ELSE LET p == node.parent[1]
         IN  MapElement(IterNext(
                 children_to(green(p), node.index, text_range(node).start)), p)

\* SyntaxNode::first_child
first_child(node) ==
    MapNode(IterNext(filter_nodes(
        children_from(green(node), 0, text_range(node).start))), node)

\* SyntaxNode::first_child_or_token
first_child_or_token(node) ==
    MapElement(IterNext(
        children_from(green(node), 0, text_range(node).start)), node)

\* SyntaxNode::last_child
last_child(node) ==
    MapNode(IterNext(filter_nodes(
        children_to(green(node), Len(Children(green(node))),
                    text_range(node).end))), node)

\* SyntaxNode::last_child_or_token
last_child_or_token(node) ==
    MapElement(IterNext(
        children_to(green(node), Len(Children(green(node))),
                    text_range(node).end)), node)

\* SyntaxToken::next_sibling_or_token
token_next_sibling_or_token(token) ==
    MapElement(IterNext(
        children_from(green(token.parent), token.index + 1,
                      token_text_range(token).end)), token.parent)

\* SyntaxToken::prev_sibling_or_token
token_prev_sibling_or_token(token) ==
    MapElement(IterNext(
        children_to(green(token.parent), token.index,
                    token_text_range(token).start)), token.parent)

\* SyntaxElement::next_sibling_or_token
element_next_sibling_or_token(el) ==
    IF el.tag = "Node" THEN next_sibling_or_token(el.v)
    ELSE token_next_sibling_or_token(el.v)

\* SyntaxElement::prev_sibling_or_token
element_prev_sibling_or_token(el) ==
    IF el.tag = "Node" THEN prev_sibling_or_token(el.v)
    ELSE token_prev_sibling_or_token(el.v)

\* SyntaxNode::first_token and SyntaxElement::first_token
RECURSIVE first_token(_)
element_first_token(el) ==
    IF el.tag = "Node" THEN first_token(el.v) ELSE Some(el.v)
first_token(node) ==
    LET e == first_child_or_token(node)
    IN  IF e = None THEN None ELSE element_first_token(e[1])

\* SyntaxNode::last_token and SyntaxElement::last_token
RECURSIVE last_token(_)
element_last_token(el) ==
    IF el.tag = "Node" THEN last_token(el.v) ELSE Some(el.v)
last_token(node) ==
    LET e == last_child_or_token(node)
    IN  IF e = None THEN None ELSE element_last_token(e[1])

\* ancestors: self, parent, grandparent, ..., root
RECURSIVE ancestors(_)
ancestors(node) ==
    <<node>> \o (IF parent(node) = None THEN <<>> ELSE ancestors(parent(node)[1]))

\* Iterator::find_map: the first Some among the Options the closure gives
\* on the items, None when there is none.
find_map(options) ==
    LET hits == {i \in 1..Len(options) : options[i] # None}
    IN  IF hits = {} THEN None
        ELSE options[CHOOSE i \in hits : \A j \in hits : i <= j]

\* SyntaxToken::next_token
next_token(token) ==
    LET s == token_next_sibling_or_token(token)
    IN  IF s # None THEN element_first_token(s[1])
        ELSE LET a == ancestors(token.parent)
                 e == find_map([i \in 1..Len(a) |-> next_sibling_or_token(a[i])])
             IN  IF e = None THEN None ELSE element_first_token(e[1])

\* SyntaxToken::prev_token
prev_token(token) ==
    LET s == token_prev_sibling_or_token(token)
    IN  IF s # None THEN element_last_token(s[1])
        ELSE LET a == ancestors(token.parent)
                 e == find_map([i \in 1..Len(a) |-> prev_sibling_or_token(a[i])])
             IN  IF e = None THEN None ELSE element_last_token(e[1])

\* ------------------------------------------------- child iterators ----
\* Iter::new: the slice iterator is at the child numbered index.
Iter_new(p) == [parent |-> p, offset |-> text_range(p).start, index |-> 0]

\* Iter::next: the item (element, index, offset), if any, and the iterator after.
Iter_next(it) ==
    LET c == Children(green(it.parent))
    IN  IF it.index >= Len(c) THEN [item |-> None, it |-> it]
        ELSE [item |-> Some([element |-> SlotPtr(green(it.parent), it.index),
                             index |-> it.index,
                             offset |-> it.offset]),
              it |-> [it EXCEPT !.offset = @ + TextLen(c[it.index + 1]),
                                !.index = @ + 1]]

\* SyntaxNodeChildren::next: skips the token children.
RECURSIVE SyntaxNodeChildren_next(_)
SyntaxNodeChildren_next(it) ==
    LET n == Iter_next(it)
    IN  IF n.item = None THEN [item |-> None, it |-> n.it]
        ELSE IF Deref(n.item[1].element).node
        THEN [item |-> Some(NodeElement(new_child(n.item[1].element, it.parent,
                                n.item[1].index, n.item[1].offset))),
              it |-> n.it]
        ELSE SyntaxNodeChildren_next(n.it)

\* SyntaxElementChildren::next
SyntaxElementChildren_next(it) ==
    LET n == Iter_next(it)
    IN  [item |-> MapElement(n.item, it.parent), it |-> n.it]

\* SyntaxNode::children_with_tokens, run to its end.
RECURSIVE Drain(_)
Drain(it) ==
    LET n == SyntaxElementChildren_next(it)
    IN  IF n.item = None THEN <<>> ELSE <<n.item[1]>> \o Drain(n.it)
children_with_tokens(node) == Drain(Iter_new(node))

\* ------------------------------------------------------ preorder walks ----
Enter(x) == [enter |-> TRUE, v |-> x]
Leave(x) == [enter |-> FALSE, v |-> x]

\* The result of a step that may fail fatally.
Ok(x) == [panic |-> FALSE, value |-> x]
Panic == [panic |-> TRUE, value |-> None]

\* preorder whose Leave goes up without looking for a next sibling.
preorder_succ_skip_siblings(pos, this) ==
    LET node == pos.v
    IN  IF pos.enter
        THEN LET child == first_child(node)
             IN  IF child # None THEN Ok(Some(Enter(child[1])))
                 ELSE Ok(Some(Leave(node)))
        ELSE IF NodeEq(node, this) THEN Ok(None)
        ELSE IF parent(node) = None THEN Panic
        ELSE Ok(Some(Leave(parent(node)[1])))

\* The closure of preorder that does not look for the start on Leave.
preorder_succ_no_halt(pos, this) ==
    LET node == pos.v
    IN  IF pos.enter
        THEN LET child == first_child(node)
             IN  IF child # None THEN Ok(Some(Enter(child[1])))
                 ELSE Ok(Some(Leave(node)))
        ELSE LET sibling == next_sibling(node)
             IN  IF sibling # None THEN Ok(Some(Enter(sibling[1])))
                 ELSE IF parent(node) = None THEN Panic
                 ELSE Ok(Some(Leave(parent(node)[1])))

\* The closure of SyntaxNode::preorder: the event after pos, None at the end;
\* parent().unwrap() is fatal on None.
preorder_succ(pos, this) ==
    LET node == pos.v
    IN  IF pos.enter
        THEN LET child == first_child(node)
             IN  IF child # None THEN Ok(Some(Enter(child[1])))
                 ELSE Ok(Some(Leave(node)))
        ELSE IF NodeEq(node, this) THEN Ok(None)
        ELSE LET sibling == next_sibling(node)
             IN  IF sibling # None THEN Ok(Some(Enter(sibling[1])))
                 ELSE IF parent(node) = None THEN Panic
                 ELSE Ok(Some(Leave(parent(node)[1])))

\* preorder_with_tokens whose Leave looks for the next node sibling only.
preorder_with_tokens_succ_nodes_only(pos, start) ==
    LET el == pos.v
    IN  IF pos.enter
        THEN IF el.tag = "Node"
             THEN LET child == first_child_or_token(el.v)
                  IN  IF child # None THEN Ok(Some(Enter(child[1])))
                      ELSE Ok(Some(Leave(el)))
             ELSE Ok(Some(Leave(el)))
        ELSE IF ElementEq(el, start) THEN Ok(None)
        ELSE LET sibling == IF el.tag = "Node" THEN next_sibling(el.v) ELSE None
             IN  IF sibling # None THEN Ok(Some(Enter(NodeElement(sibling[1]))))
                 ELSE IF element_parent(el) = None THEN Panic
                 ELSE Ok(Some(Leave(NodeElement(element_parent(el)[1]))))

\* The closure of SyntaxNode::preorder_with_tokens.
preorder_with_tokens_succ(pos, start) ==
    LET el == pos.v
    IN  IF pos.enter
        THEN IF el.tag = "Node"
             THEN LET child == first_child_or_token(el.v)
                  IN  IF child # None THEN Ok(Some(Enter(child[1])))
                      ELSE Ok(Some(Leave(el)))
             ELSE Ok(Some(Leave(el)))
        ELSE IF ElementEq(el, start) THEN Ok(None)
        ELSE LET sibling == element_next_sibling_or_token(el)
             IN  IF sibling # None THEN Ok(Some(Enter(sibling[1])))
                 ELSE IF element_parent(el) = None THEN Panic
                 ELSE Ok(Some(Leave(NodeElement(element_parent(el)[1]))))

\* ------------------------------------------------------ offset lookup ----
TokenAtOffset_None == [tag |-> "None", toks |-> <<>>]
TokenAtOffset_Single(t) == [tag |-> "Single", toks |-> <<t>>]
TokenAtOffset_Between(l, r) == [tag |-> "Between", toks |-> <<l, r>>]
\* A failed assert!, unwrap() or unreachable!().
TokenAtOffset_Fatal == [tag |-> "Fatal", toks |-> <<>>]

\* SyntaxNode::token_at_offset and SyntaxElement::token_at_offset
RECURSIVE token_at_offset(_, _)
element_token_at_offset(el, offset) ==
    LET range == element_text_range(el)
    IN  IF ~(range.start <= offset /\ offset <= range.end) THEN TokenAtOffset_Fatal
        ELSE IF el.tag = "Token" THEN TokenAtOffset_Single(el.v)
        ELSE token_at_offset(el.v, offset)
\* token_at_offset whose child filter takes a child's range end as exclusive.
token_at_offset_end_exclusive(node, offset) ==
    LET range == text_range(node)
    IN  IF ~(range.start <= offset /\ offset <= range.end) THEN TokenAtOffset_Fatal
        ELSE IF range.start = range.end THEN TokenAtOffset_None
        ELSE LET children ==
                   SelectSeq(children_with_tokens(node),
                       LAMBDA child :
                          LET child_range == element_text_range(child)
                          IN  /\ child_range.start # child_range.end
                              /\ child_range.start <= offset
                              /\ offset < child_range.end)
             IN  IF children = <<>> THEN TokenAtOffset_Fatal
                 ELSE IF Len(children) > 2 THEN TokenAtOffset_Fatal
                 ELSE IF Len(children) = 2
                 THEN LET left == element_token_at_offset(children[1], offset)
                          right == element_token_at_offset(children[2], offset)
                      IN  IF left.tag = "Single" /\ right.tag = "Single"
                          THEN TokenAtOffset_Between(left.toks[1], right.toks[1])
                          ELSE TokenAtOffset_Fatal
                 ELSE element_token_at_offset(children[1], offset)

\* token_at_offset that tests for the empty range before the range check.
token_at_offset_empty_first(node, offset) ==
    LET range == text_range(node)
    IN  IF range.start = range.end THEN TokenAtOffset_None
        ELSE IF ~(range.start <= offset /\ offset <= range.end)
        THEN TokenAtOffset_Fatal
        ELSE LET children ==
                   SelectSeq(children_with_tokens(node),
                       LAMBDA child :
                          LET child_range == element_text_range(child)
                          IN  /\ child_range.start # child_range.end
                              /\ child_range.start <= offset
                              /\ offset <= child_range.end)
             IN  IF children = <<>> THEN TokenAtOffset_Fatal
                 ELSE IF Len(children) > 2 THEN TokenAtOffset_Fatal
                 ELSE IF Len(children) = 2
                 THEN LET left == element_token_at_offset(children[1], offset)
                          right == element_token_at_offset(children[2], offset)
                      IN  IF left.tag = "Single" /\ right.tag = "Single"
                          THEN TokenAtOffset_Between(left.toks[1], right.toks[1])
                          ELSE TokenAtOffset_Fatal
                 ELSE element_token_at_offset(children[1], offset)

\* token_at_offset whose child filter keeps the empty children.
token_at_offset_keep_empty(node, offset) ==
    LET range == text_range(node)
    IN  IF ~(range.start <= offset /\ offset <= range.end) THEN TokenAtOffset_Fatal
        ELSE IF range.start = range.end THEN TokenAtOffset_None
        ELSE LET children ==
                   SelectSeq(children_with_tokens(node),
                       LAMBDA child :
                          LET child_range == element_text_range(child)
                          IN  /\ child_range.start <= offset
                              /\ offset <= child_range.end)
             IN  IF children = <<>> THEN TokenAtOffset_Fatal
                 ELSE IF Len(children) > 2 THEN TokenAtOffset_Fatal
                 ELSE IF Len(children) = 2
                 THEN LET left == element_token_at_offset(children[1], offset)
                          right == element_token_at_offset(children[2], offset)
                      IN  IF left.tag = "Single" /\ right.tag = "Single"
                          THEN TokenAtOffset_Between(left.toks[1], right.toks[1])
                          ELSE TokenAtOffset_Fatal
                 ELSE element_token_at_offset(children[1], offset)

token_at_offset(node, offset) ==
    LET range == text_range(node)
    IN  IF ~(range.start <= offset /\ offset <= range.end) THEN TokenAtOffset_Fatal
        ELSE IF range.start = range.end THEN TokenAtOffset_None
        ELSE LET children ==
                   SelectSeq(children_with_tokens(node),
                       LAMBDA child :
                          LET child_range == element_text_range(child)
                          IN  /\ child_range.start # child_range.end
                              /\ child_range.start <= offset
                              /\ offset <= child_range.end)
             IN  IF children = <<>> THEN TokenAtOffset_Fatal
                 ELSE IF Len(children) > 2 THEN TokenAtOffset_Fatal
                 ELSE IF Len(children) = 2
                 THEN LET left == element_token_at_offset(children[1], offset)
                          right == element_token_at_offset(children[2], offset)
                      IN  IF left.tag = "Single" /\ right.tag = "Single"
                          THEN TokenAtOffset_Between(left.toks[1], right.toks[1])
                          ELSE TokenAtOffset_Fatal
                 ELSE element_token_at_offset(children[1], offset)

\* ---------------------------------------------------- covering_node ----
\* TextRange::is_subrange: range lies within other, ends included.
is_subrange(range, other) ==
    other.start <= range.start /\ range.end <= other.end

\* The loop of covering_node: res is the element reached so far.
RECURSIVE covering_node_loop(_, _)
covering_node_loop(res, range) ==
    IF ~is_subrange(range, element_text_range(res)) THEN Panic
    ELSE IF res.tag = "Token" THEN Ok(res)
    ELSE LET found == SelectSeq(children_with_tokens(res.v),
                         LAMBDA child :
                            is_subrange(range, element_text_range(child)))
         IN  IF found # <<>> THEN covering_node_loop(found[1], range)
             ELSE Ok(res)

\* covering_node that goes down through node children only.
covering_node_nodes_only(node, range) ==
    LET RECURSIVE loop(_)
        loop(res) ==
           IF ~is_subrange(range, text_range(res)) THEN Panic
           ELSE LET found == SelectSeq(children_with_tokens(res),
                                LAMBDA child :
                                   /\ child.tag = "Node"
                                   /\ is_subrange(range, element_text_range(child)))
                IN  IF found # <<>> THEN loop(found[1].v)
                    ELSE Ok(NodeElement(res))
    IN  loop(node)

covering_node(node, range) == covering_node_loop(NodeElement(node), range)

\* ----------------------------------------------------- replace_with ----
\* SyntaxKind is an opaque tag; two kinds tell a match from a mismatch.
Kinds == {"K1", "K2"}

\* The addresses of the green elements of a heap h, the root's included.
Ptrs(h) ==
    {RootPtr} \cup
    UNION {{[arr |-> a, idx |-> i] : i \in 0..(Len(h[a]) - 1)} : a \in DOMAIN h}

\* A green element held by value (a GreenNode or GreenToken argument or
\* result): its kind, its cached text_len and its children, which are either
\* the children array arr of the heap (shared with the element it is a
\* clone of) or, for a node made by GreenNode::new, the new array children.
\* clone() of the green element at the address p:
CloneOf(p) ==
    [node |-> Deref(p).node, kind |-> kinds[p], text_len |-> TextLen(Deref(p)),
     arr |-> Deref(p).arr, children |-> <<>>]

\* GreenToken::new with a text of the given length.
GreenToken_new(kind, len) ==
    [node |-> FALSE, kind |-> kind, text_len |-> len, arr |-> 0, children |-> <<>>]

\* GreenNode::new(kind, children): text_len is the sum over the children.
GreenNode_new(kind, children) ==
    LET RECURSIVE sum(_)
        sum(i) == IF i > Len(children) THEN 0
                  ELSE children[i].text_len + sum(i + 1)
    IN  [node |-> TRUE, kind |-> kind, text_len |-> sum(1), arr |-> 0,
         children |-> children]

\* SyntaxNode::kind and SyntaxToken::kind: the kind of the green element.
node_kind(node) == kinds[node.green]
token_kind(token) == kinds[token_green_ptr(token)]

\* The children array both replace_with build: the parent's green children
\* cloned, the child numbered me replaced; consumed tells whether the
\* replacement was taken (assert!(replacement.is_none())).
ReplacedChildren(p, me, replacement) ==
    [children |->
        [i \in 1..Len(Children(green(p))) |->
            IF i - 1 = me THEN replacement ELSE CloneOf(SlotPtr(green(p), i - 1))],
     consumed |-> me < Len(Children(green(p)))]

RECURSIVE replace_with(_, _)

\* replace_with that returns the rebuilt parent without going further up.
replace_with_no_bubble(node, replacement) ==
    IF node_kind(node) # replacement.kind THEN Panic
    ELSE IF node.role # "Child" THEN Ok(replacement)
    ELSE LET p == node.parent[1]
             built == ReplacedChildren(p, node.index, replacement)
         IN  IF ~built.consumed THEN Panic
             ELSE Ok(GreenNode_new(node_kind(p), built.children))

\* replace_with that gives the rebuilt parent the kind of the node itself.
replace_with_own_kind(node, replacement) ==
    IF node_kind(node) # replacement.kind THEN Panic
    ELSE IF node.role # "Child" THEN Ok(replacement)
    ELSE LET p == node.parent[1]
             built == ReplacedChildren(p, node.index, replacement)
         IN  IF ~built.consumed THEN Panic
             ELSE replace_with(p, GreenNode_new(node_kind(node), built.children))

\* SyntaxNode::replace_with
replace_with(node, replacement) ==
    IF node_kind(node) # replacement.kind THEN Panic
    ELSE IF node.role # "Child" THEN Ok(replacement)
    ELSE LET p == node.parent[1]
             built == ReplacedChildren(p, node.index, replacement)
         IN  IF ~built.consumed THEN Panic
             ELSE replace_with(p, GreenNode_new(node_kind(p), built.children))

\* SyntaxToken::replace_with that puts the replacement in the first slot.
token_replace_with_first_slot(token, replacement) ==
    IF token_kind(token) # replacement.kind THEN Panic
    ELSE LET p == token.parent
             built == ReplacedChildren(p, 0, replacement)
         IN  IF ~built.consumed THEN Panic
             ELSE replace_with(p, GreenNode_new(node_kind(p), built.children))

\* SyntaxToken::replace_with
token_replace_with(token, replacement) ==
    IF token_kind(token) # replacement.kind THEN Panic
    ELSE LET p == token.parent
             built == ReplacedChildren(p, token.index, replacement)
         IN  IF ~built.consumed THEN Panic
             ELSE replace_with(p, GreenNode_new(node_kind(p), built.children))

\* ------------------------------------------------- records and pool ----
\* The pool keeps at most FREE_LIST_LEN records.
FREE_LIST_LEN == 128

MaxDepth == 3       \* depth of the overlay node the caller holds
MaxKept == 130      \* number of further handles the caller keeps

\* A record (Rc<NodeData>) is [kind, parent, strong]: kind is "Root",
\* "Child" or "Free"; parent is the record of Kind::Child's parent handle
\* (0 for none); strong is the Rc's strong count.  The list that first_free
\* and the next_free of the Free records make is kept as the sequence of
\* the linked records, the head first.  A pool state s is [records,
\* free_list, failed], records a function from record ids to records.
NodeData(kind, parent_id, strong) ==
    [kind |-> kind, parent |-> parent_id, strong |-> strong]

\* .unwrap() on None, or unreachable!()
Fail(s) == [s EXCEPT !.failed = TRUE]

\* Rc::new(NodeData { kind: Kind::Free { next_free: None }, .. }) at a new id
FreshId(recs) ==
    IF DOMAIN recs = {} THEN 1
    ELSE 1 + CHOOSE x \in DOMAIN recs : \A y \in DOMAIN recs : y <= x
Rc_new(s) ==
    [s EXCEPT !.records = (FreshId(s.records) :> NodeData("Free", 0, 1)) @@ @]

\* FreeList::try_push that links the record whatever len is.
try_push_unbounded(s, id) ==
    IF s.records[id].strong # 1 THEN Fail(s)
    ELSE [s EXCEPT
            !.records[id] = NodeData("Free", 0, 2),
            !.free_list = [first_free |-> <<id>> \o @.first_free,
                           len |-> @.len + 1]]

\* FreeList::try_push that links the record behind the last of the list.
try_push_at_tail(s, id) ==
    IF s.free_list.len >= FREE_LIST_LEN THEN s
    ELSE IF s.records[id].strong # 1 THEN Fail(s)
    ELSE [s EXCEPT
            !.records[id] = NodeData("Free", 0, 2),
            !.free_list = [first_free |-> @.first_free \o <<id>>,
                           len |-> @.len + 1]]

\* FreeList::try_push: nothing when the pool is full; else the record must
\* be unique (Rc::get_mut(node).unwrap()), becomes Free linking to the old
\* head, and the list takes a second reference to it.
try_push(s, id) ==
    IF s.free_list.len >= FREE_LIST_LEN THEN s
    ELSE IF s.records[id].strong # 1 THEN Fail(s)
    ELSE [s EXCEPT
            !.records[id] = NodeData("Free", 0, 2),
            !.free_list = [first_free |-> <<id>> \o @.first_free,
                           len |-> @.len + 1]]

\* FreeList::pop: None from an empty list; else the head leaves the list,
\* must be unique and Free, and its next_free becomes the head.
pop(s) ==
    IF s.free_list.first_free = <<>> THEN [s |-> s, node |-> None]
    ELSE LET id == Head(s.free_list.first_free)
             data == s.records[id]
         IN  IF s.free_list.len = 0 \/ data.strong # 1 \/ data.kind # "Free"
             THEN [s |-> Fail(s), node |-> None]
             ELSE [s |-> [s EXCEPT
                            !.free_list = [first_free |-> Tail(@.first_free),
                                           len |-> @.len - 1]],
                   node |-> Some(id)]

\* NodeData::new: a record from the pool, or a new one when the pool gives
\* none; it must be unique (Rc::get_mut(&mut node).unwrap()) and takes the
\* kind.  The result is the pool state and the record's id.
NodeData_new(s, kind, parent_id) ==
    LET popped == pop(s)
        got == IF popped.node # None THEN popped
               ELSE [s |-> Rc_new(popped.s),
                     node |-> Some(FreshId(popped.s.records))]
        id == got.node[1]
    IN  IF got.s.records[id].strong # 1
        THEN [s |-> Fail(got.s), node |-> id]
        ELSE [s |-> [got.s EXCEPT !.records[id].kind = kind,
                                  !.records[id].parent = parent_id],
              node |-> id]

\* A clone that leaves the strong count as it is.
clone_uncounted(s, id) == s

\* Clone for SyntaxNode: Rc::clone
SyntaxNode_clone(s, id) == [s EXCEPT !.records[id].strong = @ + 1]

RECURSIVE SyntaxNode_drop(_, _)

\* NodeData::delete that does not ask whether the record is unique.
delete_shared(s, id) ==
    LET old == s.records[id]
        freed == [s EXCEPT !.records[id].kind = "Free",
                           !.records[id].parent = 0]
        dropped == IF old.kind = "Child" THEN SyntaxNode_drop(freed, old.parent)
                   ELSE freed
    IN  try_push(dropped, id)

\* NodeData::delete that forgets the kind the record had without dropping
\* it: the parent handle of a Child is leaked.
delete_leaking_parent(s, id) ==
    IF s.records[id].strong = 1
    THEN try_push([s EXCEPT !.records[id].kind = "Free",
                            !.records[id].parent = 0], id)
    ELSE s

\* NodeData::delete: when the record is unique (Rc::get_mut) its kind
\* becomes Free, which drops the kind it had (the parent handle of a Child,
\* the green node of a Root), and the record is offered to the pool.
delete(s, id) ==
    IF s.records[id].strong = 1
    THEN LET old == s.records[id]
             freed == [s EXCEPT !.records[id].kind = "Free",
                                !.records[id].parent = 0]
             dropped == IF old.kind = "Child"
                        THEN SyntaxNode_drop(freed, old.parent)
                        ELSE freed
         IN  try_push(dropped, id)
    ELSE s

\* Drop for Rc<NodeData>: the strong count goes down; at 0 the record is
\* deallocated, after the handle of its kind, if any, was dropped.
Rc_drop(s, id) ==
    IF s.records[id].strong > 1
    THEN [s EXCEPT !.records[id].strong = @ - 1]
    ELSE LET gone == [s EXCEPT !.records =
                        [i \in DOMAIN @ \ {id} |-> @[i]]]
         IN  IF s.records[id].kind = "Child"
             THEN SyntaxNode_drop(gone, s.records[id].parent)
             ELSE gone

\* Drop for SyntaxNode: NodeData::delete, then the drop of the Rc field.
SyntaxNode_drop(s, id) ==
    IF s.failed \/ id \notin DOMAIN s.records THEN Fail(s)
    ELSE LET deleted == delete(s, id)
         IN  IF deleted.failed THEN deleted ELSE Rc_drop(deleted, id)

\* The records from a record up to its root.
RECURSIVE ChainUp(_, _)
ChainUp(recs, id) ==
    IF id = 0 \/ id \notin DOMAIN recs THEN <<>>
    ELSE <<id>> \o ChainUp(recs, recs[id].parent)

\* Record ids stand for addresses, which no operation reads: after every
\* step the records are renumbered in an order their references give: the
\* ancestors no handle refers to, the records of the kept handles, the
\* record of the held handle, the free list from its head, others.  h is
\* [held, kept]: the handle the caller navigates with and the handles kept.
RECURSIVE Ascending(_)
Ascending(S) ==
    IF S = {} THEN <<>>
    ELSE LET x == CHOOSE x \in S : \A y \in S : x <= y
         IN  <<x>> \o Ascending(S \ {x})
FirstOccurrences(q) ==
    LET idx == SelectSeq([i \in 1..Len(q) |-> i],
                         LAMBDA i : \A j \in 1..(i - 1) : q[j] # q[i])
    IN  [k \in 1..Len(idx) |-> q[idx[k]]]
Renumbered(s, h) ==
    LET recs == s.records
        kept == h.kept
        on_kept == Range(kept)
        held_apart == h.held # None /\ h.held[1] \notin on_kept
        direct == kept \o (IF held_apart THEN <<h.held[1]>> ELSE <<>>)
        on_direct == Range(direct)
        down(id) == LET chain == ChainUp(recs, id)
                    IN  [i \in 1..Len(chain) |-> chain[Len(chain) + 1 - i]]
        chains == (IF h.held = None THEN <<>> ELSE down(h.held[1]))
                  \o (IF kept = <<>> THEN <<>>
                      ELSE down(kept[1]) \o down(kept[Len(kept)]))
        above == FirstOccurrences(
                        SelectSeq(chains, LAMBDA id : id \notin on_direct))
        third == s.free_list.first_free
        listed == above \o direct \o third
        order == listed \o Ascending(DOMAIN recs \ Range(listed))
        A == Len(above)
        L == A + Len(direct)
        \* the new id of a record, looked for at the given places first
        at(id, places) ==
            IF \E k \in places : k \in 1..Len(order) /\ order[k] = id
            THEN CHOOSE k \in places : k \in 1..Len(order) /\ order[k] = id
            ELSE CHOOSE k \in 1..Len(order) : order[k] = id
        parent_at(k) ==
            LET p == recs[order[k]].parent
            IN  IF p = 0 \/ p \notin DOMAIN recs THEN p
                ELSE at(p, {1, A, k - 1, A + Len(kept), L})
    IN  [s |-> [records |->
                   [k \in 1..Len(order) |->
                       [recs[order[k]] EXCEPT !.parent = parent_at(k)]],
                free_list |->
                   [first_free |-> [k \in 1..Len(third) |-> L + k],
                    len |-> s.free_list.len],
                failed |-> s.failed],
         h |-> [held |-> IF h.held = None THEN None
                         ELSE IF held_apart THEN Some(L)
                         ELSE Some(at(h.held[1], {A + Len(kept), A + 1})),
                kept |-> [i \in 1..Len(kept) |-> A + i]]]

\* ---------------------------------------------------------- actions ----
\* A call of operation op on the receiver recv with argument arg: value is
\* the element it returned, if any, found the result of token_at_offset
\* (Fatal also when another call ended in a fatal error).
Call(op, recv, arg, value, found) ==
    [op |-> op, recv |-> recv, arg |-> arg, value |-> value, found |-> found]

\* A fatal error ended the program.
Aborted ==
    \/ ret.found.tag = "Fatal"
    \/ walk # None /\ walk[1].state = "panic"

\* The caller is in none of its loops and holds no green node that a
\* replace_with returned.
Idle == ~Aborted /\ iter = None /\ walk = None /\ scan = None /\ out = None

\* The caller makes the call and, when it returns an element, moves to it.
Move(op, value) ==
    /\ ret' = Call(op, cur, 0, value, TokenAtOffset_None)
    /\ cur' = IF value = None THEN cur ELSE value[1]
    /\ UNCHANGED <<edit_vars, pool_vars, heap, iter, walk, scan>>

\* Option<SyntaxNode> or Option<SyntaxToken> as Option<SyntaxElement>
AsNodeElement(o) == IF o = None THEN None ELSE Some(NodeElement(o[1]))
AsTokenElement(o) == IF o = None THEN None ELSE Some(TokenElement(o[1]))

Parent ==
    Idle /\ Move("parent", AsNodeElement(element_parent(cur)))
NextSiblingOrToken ==
    Idle /\ Move("next_sibling_or_token", element_next_sibling_or_token(cur))
PrevSiblingOrToken ==
    Idle /\ Move("prev_sibling_or_token", element_prev_sibling_or_token(cur))
NextSibling ==
    Idle /\ cur.tag = "Node"
         /\ Move("next_sibling", AsNodeElement(next_sibling(cur.v)))
PrevSibling ==
    Idle /\ cur.tag = "Node"
         /\ Move("prev_sibling", AsNodeElement(prev_sibling(cur.v)))
FirstChild ==
    Idle /\ cur.tag = "Node"
         /\ Move("first_child", AsNodeElement(first_child(cur.v)))
LastChild ==
    Idle /\ cur.tag = "Node"
         /\ Move("last_child", AsNodeElement(last_child(cur.v)))
FirstChildOrToken ==
    Idle /\ cur.tag = "Node"
         /\ Move("first_child_or_token", first_child_or_token(cur.v))
LastChildOrToken ==
    Idle /\ cur.tag = "Node"
         /\ Move("last_child_or_token", last_child_or_token(cur.v))
FirstToken ==
    Idle /\ Move("first_token", AsTokenElement(element_first_token(cur)))
LastToken ==
    Idle /\ Move("last_token", AsTokenElement(element_last_token(cur)))
NextToken ==
    Idle /\ cur.tag = "Token"
         /\ Move("next_token", AsTokenElement(next_token(cur.v)))
PrevToken ==
    Idle /\ cur.tag = "Token"
         /\ Move("prev_token", AsTokenElement(prev_token(cur.v)))

\* node.token_at_offset(offset), for the offsets of the text and one past it.
TokenAtOffset ==
    /\ Idle /\ cur.tag = "Node"
    /\ \E offset \in 0..(TextLen(RootGreen) + 1) :
          ret' = Call("token_at_offset", cur, offset, None,
                      token_at_offset(cur.v, offset))
    /\ UNCHANGED <<edit_vars, pool_vars, heap, cur, iter, walk, scan>>

\* for child in node.children() / node.children_with_tokens()
ChildrenLoop ==
    /\ Idle /\ cur.tag = "Node"
    /\ iter' = Some([kind |-> "nodes", it |-> Iter_new(cur.v)])
    /\ ret' = Call("children", cur, 0, None, TokenAtOffset_None)
    /\ UNCHANGED <<edit_vars, pool_vars, heap, cur, walk, scan>>

ChildrenWithTokensLoop ==
    /\ Idle /\ cur.tag = "Node"
    /\ iter' = Some([kind |-> "elements", it |-> Iter_new(cur.v)])
    /\ ret' = Call("children_with_tokens", cur, 0, None, TokenAtOffset_None)
    /\ UNCHANGED <<edit_vars, pool_vars, heap, cur, walk, scan>>

\* One turn of the loop: the iterator's next; the loop ends on None.
IterStep(kind, op, n) ==
    /\ iter # None /\ iter[1].kind = kind
    /\ ret' = Call(op, NodeElement(iter[1].it.parent), 0, n.item,
                   TokenAtOffset_None)
    /\ iter' = IF n.item = None THEN None ELSE Some([iter[1] EXCEPT !.it = n.it])
    /\ UNCHANGED <<edit_vars, pool_vars, heap, cur, walk, scan>>

SyntaxNodeChildrenNext ==
    /\ iter # None /\ iter[1].kind = "nodes"
    /\ IterStep("nodes", "SyntaxNodeChildren.next",
                SyntaxNodeChildren_next(iter[1].it))

SyntaxElementChildrenNext ==
    /\ iter # None /\ iter[1].kind = "elements"
    /\ IterStep("elements", "SyntaxElementChildren.next",
                SyntaxElementChildren_next(iter[1].it))

\* The loop body keeps the child just yielded and leaves the loop.
Take ==
    /\ iter # None /\ ret.value # None
    /\ ret.op \in {"SyntaxNodeChildren.next", "SyntaxElementChildren.next"}
    /\ cur' = ret.value[1]
    /\ iter' = None
    /\ UNCHANGED <<edit_vars, pool_vars, heap, ret, walk, scan>>

\* for event in node.preorder() / node.preorder_with_tokens(): successors
\* holds the event to yield next.
PreorderLoop ==
    /\ Idle /\ cur.tag = "Node"
    /\ walk' = Some([kind |-> "preorder", start |-> cur,
                     next |-> Some(Enter(cur.v)), events |-> <<>>,
                     state |-> "running"])
    /\ ret' = Call("preorder", cur, 0, None, TokenAtOffset_None)
    /\ UNCHANGED <<edit_vars, pool_vars, heap, cur, iter, scan>>

PreorderWithTokensLoop ==
    /\ Idle /\ cur.tag = "Node"
    /\ walk' = Some([kind |-> "preorder_with_tokens", start |-> cur,
                     next |-> Some(Enter(cur)), events |-> <<>>,
                     state |-> "running"])
    /\ ret' = Call("preorder_with_tokens", cur, 0, None, TokenAtOffset_None)
    /\ UNCHANGED <<edit_vars, pool_vars, heap, cur, iter, scan>>

\* Successors::next: yields the held event and computes the one after it;
\* the loop ends when none is held.
WalkNext ==
    /\ walk # None /\ walk[1].state = "running"
    /\ LET w == walk[1]
       IN  IF w.next = None
           THEN walk' = Some([w EXCEPT !.state = "done"])
           ELSE LET succ == IF w.kind = "preorder"
                            THEN preorder_succ(w.next[1], w.start.v)
                            ELSE preorder_with_tokens_succ(w.next[1], w.start)
                IN  walk' = Some([w EXCEPT
                                    !.events = Append(@, w.next[1]),
                                    !.next = succ.value,
                                    !.state = IF succ.panic THEN "panic" ELSE @])
    /\ UNCHANGED <<edit_vars, pool_vars, heap, cur, ret, iter, scan>>

\* The walk is over and the iterator dropped.
WalkEnd ==
    /\ walk # None /\ walk[1].state = "done"
    /\ walk' = None
    /\ UNCHANGED <<edit_vars, pool_vars, heap, cur, ret, iter, scan>>

\* let mut t = root.first_token(); while let Some(tok) = t { t = tok.next_token() }
NextTokenLoop ==
    /\ Idle /\ cur.tag = "Node" /\ cur.v.role = "Root"
    /\ scan' = Some([kind |-> "next", t |-> first_token(cur.v), toks |-> <<>>,
                     done |-> FALSE])
    /\ ret' = Call("first_token", cur, 0, AsTokenElement(first_token(cur.v)),
                   TokenAtOffset_None)
    /\ UNCHANGED <<edit_vars, pool_vars, heap, cur, iter, walk>>

\* let mut t = root.last_token(); while let Some(tok) = t { t = tok.prev_token() }
PrevTokenLoop ==
    /\ Idle /\ cur.tag = "Node" /\ cur.v.role = "Root"
    /\ scan' = Some([kind |-> "prev", t |-> last_token(cur.v), toks |-> <<>>,
                     done |-> FALSE])
    /\ ret' = Call("last_token", cur, 0, AsTokenElement(last_token(cur.v)),
                   TokenAtOffset_None)
    /\ UNCHANGED <<edit_vars, pool_vars, heap, cur, iter, walk>>

\* One turn of the token loop; it ends when t is None.
ScanStep ==
    /\ scan # None /\ ~scan[1].done
    /\ LET s == scan[1]
       IN  IF s.t = None
           THEN scan' = Some([s EXCEPT !.done = TRUE])
           ELSE scan' = Some([s EXCEPT
                                !.toks = Append(@, s.t[1]),
                                !.t = IF s.kind = "next" THEN next_token(s.t[1])
                                      ELSE prev_token(s.t[1])])
    /\ UNCHANGED <<edit_vars, pool_vars, heap, cur, ret, iter, walk>>

ScanEnd ==
    /\ scan # None /\ scan[1].done
    /\ scan' = None
    /\ UNCHANGED <<edit_vars, pool_vars, heap, cur, ret, iter, walk>>

\* node.covering_node(range), for the ranges of the text.
CoveringNode ==
    /\ Idle /\ cur.tag = "Node"
    /\ \E start \in 0..TextLen(RootGreen) : \E end \in start..TextLen(RootGreen) :
       \E res \in {covering_node(cur.v, [start |-> start, end |-> end])} :
          ret' = Call("covering_node", cur, [start |-> start, end |-> end],
                      IF res.panic THEN None ELSE Some(res.value),
                      IF res.panic THEN TokenAtOffset_Fatal
                      ELSE TokenAtOffset_None)
    /\ UNCHANGED <<edit_vars, pool_vars, heap, cur, iter, walk, scan>>

\* The green nodes the caller passes to node.replace_with: the node's own
\* green node, and new nodes of either kind with no child or one token.
NodeReplacements(node) ==
    {CloneOf(node.green)} \cup
    {GreenNode_new(k, <<>>) : k \in Kinds} \cup
    {GreenNode_new(k, <<GreenToken_new(k, MaxTokLen)>>) : k \in Kinds}

\* The green tokens the caller passes to token.replace_with.
TokenReplacements(token) ==
    {CloneOf(token_green_ptr(token))} \cup
    {GreenToken_new(k, l) : k \in Kinds, l \in {0, MaxTokLen}}

\* node.replace_with(replacement)
ReplaceWith ==
    /\ Idle /\ cur.tag = "Node"
    /\ \E replacement \in NodeReplacements(cur.v) :
       \E res \in {replace_with(cur.v, replacement)} :
          /\ ret' = Call("replace_with", cur, replacement, None,
                         IF res.panic THEN TokenAtOffset_Fatal
                         ELSE TokenAtOffset_None)
          /\ out' = IF res.panic THEN None ELSE Some(res.value)
    /\ UNCHANGED <<kinds, pool_vars, heap, cur, iter, walk, scan>>

\* token.replace_with(replacement)
TokenReplaceWith ==
    /\ Idle /\ cur.tag = "Token"
    /\ \E replacement \in TokenReplacements(cur.v) :
       \E res \in {token_replace_with(cur.v, replacement)} :
          /\ ret' = Call("replace_with", cur, replacement, None,
                         IF res.panic THEN TokenAtOffset_Fatal
                         ELSE TokenAtOffset_None)
          /\ out' = IF res.panic THEN None ELSE Some(res.value)
    /\ UNCHANGED <<kinds, pool_vars, heap, cur, iter, walk, scan>>

\* The caller drops the green node that replace_with returned.
DropGreen ==
    /\ out # None
    /\ out' = None
    /\ ret' = Call("drop", cur, 0, None, TokenAtOffset_None)
    /\ UNCHANGED <<kinds, pool_vars, heap, cur, iter, walk, scan>>

\* ------------------------------------------------------ pool actions ----
tree_vars == <<heap, cur, ret, iter, walk, scan>>

PoolState == [records |-> records, free_list |-> free_list, failed |-> failed]

\* The step ends in the pool state s, the caller holding the handles h.
Commit(s, h) ==
    /\ \E c \in {Renumbered(s, h)} :
          /\ records' = c.s.records
          /\ free_list' = c.s.free_list
          /\ failed' = c.s.failed
          /\ handles' = c.h
    /\ UNCHANGED <<tree_vars, edit_vars>>

Depth(id) == Len(ChainUp(records, id))

\* FreeList::new has not pushed its last record: no record was handed out
\* and the list is not full.
UnderConstruction ==
    /\ handles.held = None /\ handles.kept = <<>>
    /\ free_list.len < FREE_LIST_LEN
    /\ Cardinality(DOMAIN records) = free_list.len

\* One turn of the loop of FreeList::new, which starts from the empty list:
\* a new record is pushed and the temporary Rc to it is dropped.
FreeListNew ==
    /\ ~failed /\ UnderConstruction
    /\ LET id == FreshId(records)
           pushed == try_push(Rc_new(PoolState), id)
       IN  Commit(IF pushed.failed THEN pushed ELSE Rc_drop(pushed, id),
                  handles)

\* held = SyntaxNode::new_root(green), when the caller holds no overlay
NewRoot ==
    /\ ~failed /\ handles.held = None /\ handles.kept = <<>>
    /\ ~UnderConstruction
    /\ LET made == NodeData_new(PoolState, "Root", 0)
           s == IF made.s.records[made.node].strong # 1 THEN Fail(made.s)
                ELSE made.s
       IN  Commit(s, [handles EXCEPT !.held = Some(made.node)])

\* held = held.first_child(): a new Child record whose parent handle is a
\* clone of held; the handle held before is dropped.
ToChild ==
    /\ ~failed /\ handles.held # None
    /\ Depth(handles.held[1]) < MaxDepth
    /\ LET old == handles.held[1]
           made == NodeData_new(SyntaxNode_clone(PoolState, old), "Child", old)
       IN  Commit(SyntaxNode_drop(made.s, old),
                  [handles EXCEPT !.held = Some(made.node)])

\* held = held.next_sibling(): a new Child record under a clone of the
\* parent handle of held; the handle held before is dropped.
ToSibling ==
    /\ ~failed /\ handles.held # None
    /\ records[handles.held[1]].kind = "Child"
    /\ LET old == handles.held[1]
           p == records[old].parent
           made == NodeData_new(SyntaxNode_clone(PoolState, p), "Child", p)
       IN  Commit(SyntaxNode_drop(made.s, old),
                  [handles EXCEPT !.held = Some(made.node)])

\* held = held.parent(): a clone of the parent handle of a Child; a Free
\* record is unreachable!(); the handle held before is dropped.
ToParent ==
    /\ ~failed /\ handles.held # None
    /\ records[handles.held[1]].kind # "Root"
    /\ LET old == handles.held[1]
           p == records[old].parent
       IN  IF records[old].kind = "Free"
           THEN Commit(Fail(PoolState), handles)
           ELSE Commit(SyntaxNode_drop(SyntaxNode_clone(PoolState, p), old),
                       [handles EXCEPT !.held = Some(p)])

\* kept.push(held.clone()), for a child of the root that is not kept yet
Save ==
    /\ ~failed /\ handles.held # None
    /\ Len(handles.kept) < MaxKept
    /\ handles.held[1] \notin Range(handles.kept)
    /\ records[handles.held[1]].kind = "Child"
    /\ records[records[handles.held[1]].parent].kind = "Root"
    /\ Commit(SyntaxNode_clone(PoolState, handles.held[1]),
              [handles EXCEPT !.kept = Append(@, handles.held[1])])

\* drop(kept.remove(i)) for the first or the last of the kept handles
DropKept ==
    /\ ~failed /\ handles.kept # <<>>
    /\ \E i \in {1, Len(handles.kept)} :
          Commit(SyntaxNode_drop(PoolState, handles.kept[i]),
                 [handles EXCEPT !.kept =
                     [k \in 1..(Len(@) - 1) |-> IF k < i THEN @[k] ELSE @[k + 1]]])

\* drop(held)
DropHeld ==
    /\ ~failed /\ handles.held # None
    /\ Commit(SyntaxNode_drop(PoolState, handles.held[1]),
              [handles EXCEPT !.held = None])

\* Spec and SpecQuery follow the overlays as values: no green kind is read
\* and no replace_with call is made,
NoEdit == kinds = <<>> /\ out = None

\* and the records behind the overlays and their pool are left out.
NoPool ==
    /\ records = <<>>
    /\ free_list = [first_free |-> <<>>, len |-> 0]
    /\ handles = [held |-> None, kept |-> <<>>]
    /\ failed = FALSE

Init ==
    /\ heap \in Heaps
    /\ cur = NodeElement(new_root)
    /\ ret = Call("new_root", NodeElement(new_root), 0,
                  Some(NodeElement(new_root)), TokenAtOffset_None)
    /\ iter = None
    /\ walk = None
    /\ scan = None
    /\ NoEdit
    /\ NoPool

Next ==
    \/ Parent
    \/ NextSiblingOrToken
    \/ PrevSiblingOrToken
    \/ NextSibling
    \/ PrevSibling
    \/ FirstChild
    \/ LastChild
    \/ FirstChildOrToken
    \/ LastChildOrToken
    \/ FirstToken
    \/ LastToken
    \/ NextToken
    \/ PrevToken
    \/ TokenAtOffset
    \/ ChildrenLoop
    \/ ChildrenWithTokensLoop
    \/ SyntaxNodeChildrenNext
    \/ SyntaxElementChildrenNext
    \/ Take
    \/ PreorderLoop
    \/ PreorderWithTokensLoop
    \/ WalkNext
    \/ WalkEnd
    \/ NextTokenLoop
    \/ PrevTokenLoop
    \/ ScanStep
    \/ ScanEnd

Spec == Init /\ [][Next]_vars

\* The caller that goes down the tree and queries the node it holds.
NextQuery ==
    \/ FirstChildOrToken
    \/ NextSiblingOrToken
    \/ NextSibling
    \/ PrevSibling
    \/ TokenAtOffset
    \/ PreorderLoop
    \/ PreorderWithTokensLoop
    \/ WalkNext
    \/ WalkEnd

SpecQuery == Init /\ [][NextQuery]_vars

\* The caller that goes down the tree and asks for covering nodes.
NextCover ==
    \/ FirstChildOrToken
    \/ NextSiblingOrToken
    \/ CoveringNode

SpecCover == Init /\ [][NextCover]_vars

\* The caller that goes down a tree whose elements have kinds and replaces
\* the element it holds.  The kinds being opaque and interchangeable, the
\* root is given the first of them.
InitEdit ==
    /\ heap \in Heaps
    /\ kinds \in {k \in [Ptrs(heap) -> Kinds] : k[RootPtr] = "K1"}
    /\ cur = NodeElement(new_root)
    /\ ret = Call("new_root", NodeElement(new_root), 0,
                  Some(NodeElement(new_root)), TokenAtOffset_None)
    /\ iter = None
    /\ walk = None
    /\ scan = None
    /\ out = None
    /\ NoPool

NextEdit ==
    \/ FirstChildOrToken
    \/ NextSiblingOrToken
    \/ ReplaceWith
    \/ TokenReplaceWith
    \/ DropGreen

SpecEdit == InitEdit /\ [][NextEdit]_vars

\* The caller that holds up to two handles to overlay nodes: creates,
\* moves, clones and drops them.  This specification follows the records
\* and their pool and leaves the green tree out.
NoTree ==
    /\ heap = <<>>
    /\ cur = None
    /\ ret = None
    /\ iter = None
    /\ walk = None
    /\ scan = None

\* FreeList { first_free: None, len: 0 }, no record, no handle
InitPool ==
    /\ NoTree
    /\ NoEdit
    /\ NoPool

NextPool ==
    \/ FreeListNew
    \/ NewRoot
    \/ ToChild
    \/ ToSibling
    \/ ToParent
    \/ Save
    \/ DropKept
    \/ DropHeld

SpecPool == InitPool /\ [][NextPool]_vars

\* ------------------------------------------- positions and references ----
\* The position of an overlay: the child indices on the way from the root.
RECURSIVE NodePath(_)
NodePath(node) ==
    IF node.role = "Root" THEN <<>>
    ELSE Append(NodePath(node.parent[1]), node.index)
TokenPath(token) == Append(NodePath(token.parent), token.index)
ElementPath(el) == IF el.tag = "Node" THEN NodePath(el.v) ELSE TokenPath(el.v)

Front(s) == SubSeq(s, 1, Len(s) - 1)
Last(s) == s[Len(s)]

\* The green element at a position of the tree under the root green node.
RECURSIVE GreenAt(_)
GreenAt(path) ==
    IF path = <<>> THEN RootGreen
    ELSE Children(GreenAt(Front(path)))[Last(path) + 1]

\* The text length of the children of g before the child numbered i.
RECURSIVE PrefixLen(_, _)
PrefixLen(g, i) ==
    IF i = 0 THEN 0 ELSE PrefixLen(g, i - 1) + TextLen(Children(g)[i])

\* The start offset of a position: the text before it in the document.
RECURSIVE StartAt(_)
StartAt(path) ==
    IF path = <<>> THEN 0
    ELSE StartAt(Front(path)) + PrefixLen(GreenAt(Front(path)), Last(path))

\* The positions of the subtree at path, and its tokens in document order.
RECURSIVE SubtreePaths(_)
SubtreePaths(path) ==
    {path} \cup
    (IF GreenAt(path).node
     THEN UNION {SubtreePaths(Append(path, i)) :
                   i \in 0..(Len(Children(GreenAt(path))) - 1)}
     ELSE {})

RECURSIVE DocTokens(_)
DocTokens(path) ==
    IF ~GreenAt(path).node THEN <<path>>
    ELSE LET n == Len(Children(GreenAt(path)))
             RECURSIVE from(_)
             from(i) == IF i >= n THEN <<>>
                        ELSE DocTokens(Append(path, i)) \o from(i + 1)
         IN  from(0)

\* Every overlay element the state holds ...
HeldElements ==
    {cur, ret.recv} \cup Range(ret.value)
    \cup {TokenElement(t) : t \in Range(ret.found.toks)}
    \cup (IF iter = None THEN {} ELSE {NodeElement(iter[1].it.parent)})
    \cup (IF walk = None THEN {}
          ELSE LET w == walk[1]
                   el(x) == IF w.kind = "preorder" THEN NodeElement(x) ELSE x
               IN  {w.start} \cup {el(e.v) : e \in Range(w.events)}
                   \cup {el(e.v) : e \in Range(w.next)})
    \cup (IF scan = None THEN {}
          ELSE {TokenElement(t) : t \in Range(scan[1].toks) \cup Range(scan[1].t)})

\* ... and with them the overlay nodes they retain: their ancestors.
Overlays ==
    HeldElements \cup
    UNION {{NodeElement(n) :
              n \in Range(ancestors(IF e.tag = "Node" THEN e.v ELSE e.v.parent))}
           : e \in HeldElements}

ChildOverlays == {x \in Overlays : x.tag = "Token" \/ x.v.role = "Child"}
ParentOf(x) == element_parent(x)[1]

\* The address of the green element an overlay views.
GreenPtrOf(x) == IF x.tag = "Node" THEN x.v.green ELSE token_green_ptr(x.v)

\* --------------------------------------------------------------- C1 ----
\* C1: every overlay starts at its parent's start plus the text lengths of
\* the parent's green children before its index; a root starts at 0.
C1_OffsetOfChild ==
    \A x \in Overlays :
       IF x.tag = "Token" \/ x.v.role = "Child"
       THEN element_text_range(x).start =
               text_range(ParentOf(x)).start
                  + PrefixLen(green(ParentOf(x)), x.v.index)
       ELSE element_text_range(x).start = 0

\* C1 witness: a sibling reached backwards that does not start at its
\* parent's start.
C1_Witness ==
    /\ ret.op \in {"prev_sibling", "prev_sibling_or_token", "prev_token"}
    /\ ret.value # None
    /\ element_text_range(cur).start > text_range(ParentOf(cur)).start

\* --------------------------------------------------------------- C2 ----
\* C2: the green element of every Child overlay is its parent's green child
\* at its index: a node overlay views a node-kind child, a token overlay a
\* token-kind child, and SyntaxToken::green never takes its unreachable arm.
C2_GreenIsChildAtIndex ==
    \A x \in ChildOverlays :
       /\ x.v.index < Len(Children(green(ParentOf(x))))
       /\ IF x.tag = "Node"
          THEN /\ x.v.green = SlotPtr(green(ParentOf(x)), x.v.index)
               /\ Deref(x.v.green).node
          ELSE ~token_green_unreachable(x.v)

\* C2 witness: next_sibling stepped over a token child to reach a node.
C2_Witness ==
    /\ ret.op = "next_sibling" /\ ret.value # None
    /\ cur.v.index > ret.recv.v.index + 1

\* --------------------------------------------------------------- C3 ----
\* The overlay at a position as children_with_tokens materializes it, going
\* down from a fresh root.
RECURSIVE Descend(_)
Descend(path) ==
    IF path = <<>> THEN NodeElement(new_root)
    ELSE children_with_tokens(Descend(Front(path)).v)[Last(path) + 1]

\* C3: overlays of one position that were materialized on different ways
\* (held together, or by a descent through children_with_tokens) compare
\* equal and have equal hashes.
C3_SamePositionEqual ==
    LET path == [x \in Overlays |-> ElementPath(x)]
    IN  /\ \A x, y \in DOMAIN path :
              path[x] = path[y] =>
                 ElementEq(x, y) /\ ElementHash(x) = ElementHash(y)
        /\ \A x \in DOMAIN path :
              LET descended == Descend(path[x])
              IN  /\ ElementEq(x, descended)
                  /\ ElementHash(x) = ElementHash(descended)

\* C3 witness: a walk came back to its start through parent(), the start
\* not being the first child of its parent.
C3_Witness ==
    /\ walk # None /\ walk[1].state = "done" /\ walk[1].kind = "preorder"
    /\ walk[1].start.v.role = "Child" /\ walk[1].start.v.index > 0
    /\ Len(walk[1].events) > 2
    /\ ret.op = "preorder"

\* --------------------------------------------------------------- C4 ----
\* C4 as claimed: overlays are equal exactly when they view the same green
\* element at the same start offset.
C4_EqualIffSameGreenAndStart ==
    \A x, y \in Overlays :
       ElementEq(x, y) <=>
          /\ x.tag = y.tag
          /\ GreenPtrOf(x) = GreenPtrOf(y)
          /\ element_text_range(x).start = element_text_range(y).start

\* C4 amended: node overlays are equal exactly when they view the same green
\* node at the same start offset; token overlays are equal exactly when they
\* view the same green token at the same start offset and their parents view
\* the same green node.
C4_EqualityOfOverlays ==
    \A x, y \in Overlays :
       ElementEq(x, y) <=>
          /\ x.tag = y.tag
          /\ GreenPtrOf(x) = GreenPtrOf(y)
          /\ element_text_range(x).start = element_text_range(y).start
          /\ x.tag = "Token" => x.v.parent.green = y.v.parent.green

\* C4 witness: two tokens that view the same green token at the same start
\* offset under different parents, and are not equal.
C4_Witness ==
    \E x, y \in Overlays :
       /\ x.tag = "Token" /\ y.tag = "Token"
       /\ GreenPtrOf(x) = GreenPtrOf(y)
       /\ element_text_range(x).start = element_text_range(y).start
       /\ x.v.parent.green # y.v.parent.green
       /\ ~ElementEq(x, y)

\* --------------------------------------------------------------- C5 ----
\* The positions of the events a walk has emitted.
EventPath(w, e) == IF w.kind = "preorder" THEN NodePath(e.v) ELSE ElementPath(e.v)
\* The places in the events of w of the Enter (or Leave) of a position.
EventsAt(w, enter, path) ==
    {i \in 1..Len(w.events) :
        w.events[i].enter = enter /\ EventPath(w, w.events[i]) = path}

\* C5: preorder_with_tokens of a node emits exactly one Enter and one Leave
\* for each element of the node's subtree and for nothing else, a token's
\* Enter is followed at once by its Leave, and the tokens in Enter order are
\* the tokens of the subtree in document order; the walk never fails and
\* never emits more than two events per element.
C5_PreorderWithTokens ==
    (walk # None /\ walk[1].kind = "preorder_with_tokens") =>
       LET w == walk[1]
           S == SubtreePaths(ElementPath(w.start))
           entered == SelectSeq(w.events,
                         LAMBDA e : e.enter /\ e.v.tag = "Token")
       IN  /\ w.state # "panic"
           /\ Len(w.events) <= 2 * Cardinality(S)
           /\ \A i \in 1..Len(w.events) : ElementPath(w.events[i].v) \in S
           /\ \A i \in 1..Len(w.events) :
                 (w.events[i].enter /\ w.events[i].v.tag = "Token") =>
                    \/ i = Len(w.events) /\ w.next = Some(Leave(w.events[i].v))
                    \/ i < Len(w.events) /\ w.events[i + 1] = Leave(w.events[i].v)
           /\ w.state = "done" =>
                 /\ \A path \in S :
                       /\ Cardinality(EventsAt(w, TRUE, path)) = 1
                       /\ Cardinality(EventsAt(w, FALSE, path)) = 1
                 /\ [i \in 1..Len(entered) |-> TokenPath(entered[i].v.v)]
                       = DocTokens(ElementPath(w.start))

\* C5 witness: a finished walk over a subtree with a token that is not the
\* first child, started below the root.
C5_Witness ==
    /\ walk # None /\ walk[1].kind = "preorder_with_tokens"
    /\ walk[1].state = "done"
    /\ walk[1].start.v.role = "Child"
    /\ \E i \in 1..Len(walk[1].events) :
          /\ walk[1].events[i].v.tag = "Token"
          /\ walk[1].events[i].v.v.index > 0

\* --------------------------------------------------------------- C6 ----
\* The walk over the node-kind elements of a subtree: Enter, the walks of
\* the node children from left to right, Leave.
RECURSIVE NodeWalk(_)
NodeWalk(path) ==
    LET n == Len(Children(GreenAt(path)))
        RECURSIVE from(_)
        from(i) == IF i >= n THEN <<>>
                   ELSE (IF GreenAt(Append(path, i)).node
                         THEN NodeWalk(Append(path, i)) ELSE <<>>) \o from(i + 1)
    IN  <<[enter |-> TRUE, path |-> path]>> \o from(0)
        \o <<[enter |-> FALSE, path |-> path]>>

\* C6: preorder ends: it emits the properly nested walk of the node-kind
\* elements of start's subtree, one Enter and one Leave each, the Enter
\* first, Leave(start) last, and nothing after it; it never fails and never
\* emits more than two events per node.
C6_PreorderTerminates ==
    (walk # None /\ walk[1].kind = "preorder") =>
       LET w == walk[1]
           ref == NodeWalk(NodePath(w.start.v))
           emitted == [i \in 1..Len(w.events) |->
                         [enter |-> w.events[i].enter,
                          path |-> NodePath(w.events[i].v)]]
       IN  /\ w.state # "panic"
           /\ Len(emitted) <= Len(ref)
           /\ emitted = SubSeq(ref, 1, Len(emitted))
           /\ (Len(emitted) = Len(ref)) <=> (w.next = None)
           /\ w.state = "done" =>
                 /\ emitted = ref
                 /\ w.events[Len(w.events)] = Leave(w.start.v)
                 /\ \A path \in {q \in SubtreePaths(NodePath(w.start.v)) :
                                   GreenAt(q).node} :
                       /\ Cardinality(EventsAt(w, TRUE, path)) = 1
                       /\ Cardinality(EventsAt(w, FALSE, path)) = 1
                       /\ \A i \in EventsAt(w, TRUE, path) :
                             \A j \in EventsAt(w, FALSE, path) : i < j

\* C6 witness: a finished walk that entered a second node child after
\* stepping over a token.
C6_Witness ==
    /\ walk # None /\ walk[1].kind = "preorder" /\ walk[1].state = "done"
    /\ \E i \in 1..Len(walk[1].events) :
          /\ walk[1].events[i].enter
          /\ walk[1].events[i].v.role = "Child"
          /\ walk[1].events[i].v.index = 2

\* --------------------------------------------------------------- C7 ----
Reverse(s) == [i \in 1..Len(s) |-> s[Len(s) + 1 - i]]

\* C7: from root.first_token(), next_token visits every token of the tree
\* once, in document order, and is None only after the last one; from
\* root.last_token(), prev_token visits them in reverse document order.
C7_TokenLoopVisitsAll ==
    (scan # None /\ scan[1].done) =>
       LET visited == [i \in 1..Len(scan[1].toks) |-> TokenPath(scan[1].toks[i])]
       IN  IF scan[1].kind = "next" THEN visited = DocTokens(<<>>)
           ELSE visited = Reverse(DocTokens(<<>>))

\* --------------------------------------------------------------- C8 ----
\* C8: first_token is the leftmost and last_token the rightmost token of the
\* receiver's subtree, None only when the subtree has no token; a token
\* gives itself.
C8_FirstAndLastToken ==
    (ret.op \in {"first_token", "last_token"}) =>
       LET tokens == DocTokens(ElementPath(ret.recv))
       IN  IF tokens = <<>> THEN ret.value = None
           ELSE /\ ret.value # None
                /\ ret.value[1].tag = "Token"
                /\ ElementPath(ret.value[1]) =
                      IF ret.op = "first_token" THEN tokens[1]
                      ELSE tokens[Len(tokens)]

\* --------------------------------------------------------------- C9 ----
\* The non-empty tokens of the tree in document order, and their ranges.
NonEmptyTokens == SelectSeq(DocTokens(<<>>), LAMBDA path : GreenAt(path).len > 0)
EndAt(path) == StartAt(path) + TextLen(GreenAt(path))
FoundPaths == [i \in 1..Len(ret.found.toks) |-> TokenPath(ret.found.toks[i])]

\* C9: on a root with a non-empty range and an offset o in it,
\* token_at_offset is Single(t) when o is strictly inside token t,
\* Between(l, r) when o is the end of l and the start of r, l and r being
\* non-empty tokens with none between them, and Single of the first (last)
\* non-empty token when o is the root's start (end).
C9_TokenAtOffset ==
    (/\ ret.op = "token_at_offset"
     /\ ret.recv.v.role = "Root"
     /\ TextLen(RootGreen) > 0
     /\ ret.arg <= TextLen(RootGreen)) =>
       LET toks == NonEmptyTokens
           o == ret.arg
       IN  /\ \A k \in 1..Len(toks) :
                 (StartAt(toks[k]) < o /\ o < EndAt(toks[k])) =>
                    ret.found.tag = "Single" /\ FoundPaths = <<toks[k]>>
           /\ \A k \in 1..(Len(toks) - 1) :
                 (EndAt(toks[k]) = o /\ StartAt(toks[k + 1]) = o) =>
                    /\ ret.found.tag = "Between"
                    /\ FoundPaths = <<toks[k], toks[k + 1]>>
           /\ o = 0 => ret.found.tag = "Single" /\ FoundPaths = <<toks[1]>>
           /\ o = TextLen(RootGreen) =>
                 ret.found.tag = "Single" /\ FoundPaths = <<toks[Len(toks)]>>

\* C9 witness: Between two non-empty tokens that an empty token separates.
C9_Witness ==
    /\ ret.op = "token_at_offset" /\ ret.recv.v.role = "Root"
    /\ ret.found.tag = "Between"
    /\ \E path \in Range(DocTokens(<<>>)) :
          /\ GreenAt(path).len = 0
          /\ StartAt(path) = ret.arg
          /\ path \notin Range(FoundPaths)

\* -------------------------------------------------------------- C10 ----
\* C10 as claimed: on a node with an empty range token_at_offset is None,
\* whatever the offset.
C10_EmptyRangeIsNone ==
    (/\ ret.op = "token_at_offset"
     /\ text_range(ret.recv.v).start = text_range(ret.recv.v).end) =>
       ret.found.tag = "None"

\* C10 amended: on a node with an empty range token_at_offset is None when
\* the offset is the start (and end) of that range, and fails fatally on its
\* range check for every other offset.
C10_EmptyRangeNoneInsideFatalOutside ==
    (/\ ret.op = "token_at_offset"
     /\ text_range(ret.recv.v).start = text_range(ret.recv.v).end) =>
       IF ret.arg = text_range(ret.recv.v).start
       THEN ret.found.tag = "None"
       ELSE ret.found.tag = "Fatal"

\* C10 witness: None for the one offset of the empty range of a node that
\* does not start the text.
C10_Witness ==
    /\ ret.op = "token_at_offset"
    /\ text_range(ret.recv.v).start = text_range(ret.recv.v).end
    /\ ret.arg = text_range(ret.recv.v).start
    /\ ret.arg > 0
    /\ ret.found.tag = "None"

\* -------------------------------------------------------------- C11 ----
IsPrefix(p, q) == Len(p) <= Len(q) /\ SubSeq(q, 1, Len(p)) = p

\* The element at a position of the tree contains the range, ends included.
Contains(path, range) == StartAt(path) <= range.start /\ range.end <= EndAt(path)

\* C11: covering_node(r) on a node whose range contains r returns an element
\* e of the node's subtree whose range contains r and, when e is a node, no
\* child of e contains r; for a non-empty r every element of the subtree
\* that contains r is e or an ancestor of e, so e is the one deepest element
\* containing r.
C11_CoveringNode ==
    (/\ ret.op = "covering_node"
     /\ is_subrange(ret.arg, text_range(ret.recv.v))) =>
       /\ ret.found.tag # "Fatal"
       /\ ret.value # None
       /\ LET e == ret.value[1]
              p == ElementPath(e)
              top == ElementPath(ret.recv)
          IN  /\ p \in SubtreePaths(top)
              /\ is_subrange(ret.arg, element_text_range(e))
              /\ Contains(p, ret.arg)
              /\ (e.tag = "Node") = GreenAt(p).node
              /\ e.tag = "Node" =>
                    \A i \in 0..(Len(Children(GreenAt(p))) - 1) :
                       ~Contains(Append(p, i), ret.arg)
              /\ ret.arg.start < ret.arg.end =>
                    \A q \in SubtreePaths(top) :
                       Contains(q, ret.arg) => IsPrefix(q, p)

\* C11 witness: the range of a token two levels below the node is not empty
\* and covering_node returned that token.
C11_Witness ==
    /\ ret.op = "covering_node" /\ ret.value # None
    /\ ret.value[1].tag = "Token"
    /\ ret.arg.start < ret.arg.end
    /\ ret.arg = element_text_range(ret.value[1])
    /\ Len(ElementPath(ret.value[1])) >= Len(ElementPath(ret.recv)) + 2

\* -------------------------------------------------------------- C15 ----
\* C15: when x.next_sibling() returned the node y, y.prev_sibling() returns
\* a node equal to x (and with the same hash), however many token children
\* lie between the two.
C15_NextThenPrevSibling ==
    (ret.op = "next_sibling" /\ ret.value # None) =>
       LET x == ret.recv.v
           y == ret.value[1].v
           back == prev_sibling(y)
       IN  /\ back # None
           /\ NodeEq(back[1], x)
           /\ NodeHash(back[1]) = NodeHash(x)
           /\ NodePath(back[1]) = NodePath(x)

\* C15 witness: next_sibling passed a token with text on its way to y, and
\* prev_sibling of y is x again.
C15_Witness ==
    /\ ret.op = "next_sibling" /\ ret.value # None
    /\ ret.value[1].v.index > ret.recv.v.index + 1
    /\ ret.value[1].v.offset > text_range(ret.recv.v).end
    /\ prev_sibling(ret.value[1].v) = Some(ret.recv.v)

\* -------------------------------------------------------------- C19 ----
\* The children of the node at path that have text and touch the offset.
Touching(path, offset) ==
    {i \in 0..(Len(Children(GreenAt(path))) - 1) :
        /\ StartAt(Append(path, i)) < EndAt(Append(path, i))
        /\ StartAt(Append(path, i)) <= offset
        /\ offset <= EndAt(Append(path, i))}

\* C19: on a node with a non-empty range, for an offset within that range,
\* token_at_offset returns Single or Between, never None and never a fatal
\* error; in every node of the subtree that has text and touches the offset
\* one or two children with text touch the offset, and where two do, the
\* lookup in each of the two yields Single.
C19_TokenAtOffsetTotal ==
    (/\ ret.op = "token_at_offset"
     /\ text_range(ret.recv.v).start < text_range(ret.recv.v).end
     /\ text_range(ret.recv.v).start <= ret.arg
     /\ ret.arg <= text_range(ret.recv.v).end) =>
       /\ ret.found.tag \in {"Single", "Between"}
       /\ \A q \in SubtreePaths(NodePath(ret.recv.v)) :
             (/\ GreenAt(q).node
              /\ StartAt(q) < EndAt(q)
              /\ StartAt(q) <= ret.arg /\ ret.arg <= EndAt(q)) =>
                /\ Cardinality(Touching(q, ret.arg)) \in {1, 2}
                /\ Cardinality(Touching(q, ret.arg)) = 2 =>
                      \A i \in Touching(q, ret.arg) :
                         element_token_at_offset(Descend(Append(q, i)),
                                                 ret.arg).tag = "Single"

\* C19 witness: Between, found from a node that is not the root, at an
\* offset where two of its children with text meet.
C19_Witness ==
    /\ ret.op = "token_at_offset" /\ ret.recv.v.role = "Child"
    /\ ret.found.tag = "Between"
    /\ Cardinality(Touching(NodePath(ret.recv.v), ret.arg)) = 2

\* -------------------------------------------------------------- C20 ----
\* The events of the walk, the one held for the next turn included.
WalkEvents(w) == Range(w.events) \cup Range(w.next)

\* C20: a preorder or preorder_with_tokens walk started at any node yields
\* no event for an element outside the subtree of its start, no element of
\* that subtree other than the start compares equal to the start (neither
\* one the walk yields nor one a descent from the root materializes), and
\* parent().unwrap() never fails; zero-length nodes and tokens included.
C20_WalkStaysInSubtree ==
    walk # None =>
       LET w == walk[1]
           top == ElementPath(w.start)
           eq(x) == IF w.kind = "preorder" THEN NodeEq(x, w.start.v)
                    ELSE ElementEq(x, w.start)
       IN  /\ w.state # "panic"
           /\ \A e \in WalkEvents(w) :
                 /\ IsPrefix(top, EventPath(w, e))
                 /\ EventPath(w, e) \in SubtreePaths(top)
                 /\ EventPath(w, e) # top => ~eq(e.v)
           /\ \A q \in SubtreePaths(top) \ {top} :
                 ~ElementEq(Descend(q), w.start)

\* C20 witness: a finished walk with tokens whose start is not the root, has
\* a sibling after it, and has a first child that starts where it starts.
C20_Witness ==
    /\ walk # None /\ walk[1].state = "done"
    /\ walk[1].kind = "preorder_with_tokens"
    /\ walk[1].start.v.role = "Child"
    /\ next_sibling_or_token(walk[1].start.v) # None
    /\ Len(walk[1].events) > 2
    /\ ElementPath(walk[1].events[2].v) # ElementPath(walk[1].start)
    /\ element_text_range(walk[1].events[2].v).start
          = text_range(walk[1].start.v).start

\* -------------------------------------------------------------- C12 ----
\* The tree a green value stands for: kinds, text lengths and children, the
\* children of a shared array read from the heap.
RECURSIVE Struct(_)
Struct(v) ==
    [node |-> v.node, kind |-> v.kind, text_len |-> v.text_len,
     children |->
        IF ~v.node THEN <<>>
        ELSE IF v.arr # 0
        THEN [i \in 1..Len(heap[v.arr]) |->
                 Struct(CloneOf([arr |-> v.arr, idx |-> i - 1]))]
        ELSE [i \in 1..Len(v.children) |-> Struct(v.children[i])]]

\* The kind of the element a call was made on.
element_kind(el) == IF el.tag = "Node" THEN node_kind(el.v) ELSE token_kind(el.v)

\* C12: n.replace_with(n.green()) returns a green node that is structurally
\* equal to the green node of the root: same kinds, text lengths and
\* children all the way down.
C12_ReplaceWithOwnGreen ==
    (/\ ret.op = "replace_with" /\ ret.recv.tag = "Node"
     /\ ret.arg = CloneOf(ret.recv.v.green)) =>
       /\ ret.found.tag # "Fatal"
       /\ out # None
       /\ Struct(out[1]) = Struct(CloneOf(RootPtr))

\* C12 witness: the round trip from a node two levels below the root whose
\* kind is not its parent's, the parent having a second child.
C12_Witness ==
    /\ ret.op = "replace_with" /\ ret.recv.tag = "Node"
    /\ ret.arg = CloneOf(ret.recv.v.green)
    /\ out # None
    /\ Len(NodePath(ret.recv.v)) >= 2
    /\ node_kind(ret.recv.v) # node_kind(ret.recv.v.parent[1])

\* -------------------------------------------------------------- C13 ----
\* The returned green value v stands where the element at the address p
\* stood; path leads from there to the replaced element.  Every node on the
\* way is a new node with the kind and the number of children of the
\* original, its children off the way are clones of the original children,
\* and at the end of the way stands the replacement.
RECURSIVE Rebuilt(_, _, _)
Rebuilt(v, p, path) ==
    IF path = <<>> THEN v = ret.arg
    ELSE /\ v.node /\ v.arr = 0
         /\ v.kind = kinds[p]
         /\ Len(v.children) = Len(Children(Deref(p)))
         /\ \A i \in 1..Len(v.children) :
               IF i - 1 = Head(path)
               THEN Rebuilt(v.children[i], SlotPtr(Deref(p), i - 1), Tail(path))
               ELSE v.children[i] = CloneOf(SlotPtr(Deref(p), i - 1))

\* C13: the green node replace_with returns (for a node or a token) differs
\* from the original only on the way from the root to the replaced element:
\* each ancestor keeps its kind and its number of children, the other
\* children are the original elements, the replacement stands at the
\* replaced position, and the new root's text_len is the original's minus
\* the replaced element's plus the replacement's.
C13_ReplaceWithFrame ==
    (ret.op = "replace_with" /\ out # None) =>
       /\ ElementPath(ret.recv) \in SubtreePaths(<<>>)
       /\ Rebuilt(out[1], RootPtr, ElementPath(ret.recv))
       /\ out[1].text_len =
             TextLen(RootGreen) - TextLen(GreenAt(ElementPath(ret.recv)))
                + ret.arg.text_len

\* C13 witness: a token that is not the first child of its parent, the
\* parent not the root, replaced by a token of another length.
C13_Witness ==
    /\ ret.op = "replace_with" /\ out # None
    /\ ret.recv.tag = "Token"
    /\ ret.recv.v.index > 0
    /\ ret.recv.v.parent.role = "Child"
    /\ ret.arg.text_len # TextLen(GreenAt(ElementPath(ret.recv)))

\* -------------------------------------------------------------- C14 ----
\* C14: replace_with (on a node or a token) fails fatally and returns no
\* green node when the kind of the replacement is not the kind of the
\* receiver; when the two kinds are the same no check fails, neither the
\* kind check at an ancestor nor the check that the replacement was used.
C14_ReplaceWithKindCheck ==
    ret.op = "replace_with" =>
       IF element_kind(ret.recv) # ret.arg.kind
       THEN ret.found.tag = "Fatal" /\ out = None
       ELSE ret.found.tag # "Fatal" /\ out # None

\* C14 witness: a replacement of the receiver's kind went up through a
\* parent of another kind, and a replacement of another kind failed.
C14_Witness ==
    /\ ret.op = "replace_with" /\ out # None
    /\ ret.recv.tag = "Node" /\ ret.recv.v.role = "Child"
    /\ ret.arg.children # <<>>
    /\ node_kind(ret.recv.v.parent[1]) # node_kind(ret.recv.v)
    /\ replace_with(ret.recv.v,
                    GreenNode_new(node_kind(ret.recv.v.parent[1]), <<>>)).panic

\* ------------------------------------------------------ C16 .. C18 ----
\* The records the caller's handles refer to.
Handled ==
    Range(handles.kept)
        \cup (IF handles.held = None THEN {} ELSE {handles.held[1]})

\* A record that is neither Free nor gone.
Live(id) == id \in DOMAIN records /\ records[id].kind \in {"Root", "Child"}

\* C16: after any creating, cloning and dropping of overlay nodes, and in
\* the pre-filled state, the pool holds at most FREE_LIST_LEN free records,
\* and its len is the number of records linked on the free list.
C16_PoolWithinCapacity ==
    /\ free_list.len <= FREE_LIST_LEN
    /\ free_list.len = Len(free_list.first_free)
    /\ free_list.len = Cardinality(Range(free_list.first_free))
    /\ Range(free_list.first_free) \subseteq DOMAIN records

\* C16 witness: the pool is full again while more records than it takes
\* exist, overlays being alive: the pool was empty before and gave out new
\* records.
C16_Witness ==
    /\ free_list.len = FREE_LIST_LEN
    /\ Cardinality(DOMAIN records) > FREE_LIST_LEN + 1
    /\ handles.kept # <<>>

\* C17: each record on the free list is Free and is referenced by the free
\* list only: no handle and no parent link of a record refers to it (a
\* shared record is never pushed); no overlay the caller has is Free; and
\* no check of uniqueness or of the kind in FreeList::pop,
\* FreeList::try_push, NodeData::new or SyntaxNode::parent has failed.
C17_FreeListUnshared ==
    LET linked == Range(free_list.first_free)
        parents == {records[r].parent : r \in DOMAIN records}
    IN  /\ ~failed
        /\ \A id \in linked :
              /\ id \in DOMAIN records
              /\ records[id].kind = "Free"
              /\ records[id].strong = 1
              /\ id \notin Handled
              /\ id \notin parents
        /\ \A id \in Handled : Live(id)

\* C17 witness: the pool has room and gave out records, and a Child record
\* no handle refers to is still the parent of the held overlay: its last
\* handle was dropped and the record was not pushed.
C17_Witness ==
    /\ free_list.len > 0 /\ free_list.len < FREE_LIST_LEN
    /\ handles.held # None /\ handles.kept # <<>>
    /\ records[handles.held[1]].kind = "Child"
    /\ records[handles.held[1]].parent \notin Handled
    /\ records[records[handles.held[1]].parent].kind = "Child"
    /\ records[records[handles.held[1]].parent].strong = 1

\* C18: while the caller has an overlay, every record on its parent chain
\* up to the root is alive, with kind Child or Root, is referenced and is
\* not on the free list, and the chain ends in the Root record, which owns
\* the root green node, whatever handles were cloned and dropped.
C18_AncestorsRetained ==
    LET linked == Range(free_list.first_free)
    IN  \A id \in Handled :
           LET chain == ChainUp(records, id)
           IN  /\ chain # <<>>
               /\ \A k \in 1..Len(chain) :
                     /\ Live(chain[k])
                     /\ records[chain[k]].strong >= 1
                     /\ chain[k] \notin linked
                     /\ IF k = Len(chain)
                        THEN /\ records[chain[k]].kind = "Root"
                             /\ records[chain[k]].parent = 0
                        ELSE /\ records[chain[k]].kind = "Child"
                             /\ records[chain[k]].parent = chain[k + 1]

\* C18 witness: the handle to the root was dropped and so was the held
\* overlay; the kept children alone retain the Root record.
C18_Witness ==
    /\ handles.held = None
    /\ Len(handles.kept) >= 2
    /\ \E r \in DOMAIN records :
          /\ records[r].kind = "Root"
          /\ records[r].strong = Len(handles.kept)
          /\ \A i \in 1..Len(handles.kept) :
                records[handles.kept[i]].parent = r

\* -------------------------------------------------------------- C21 ----
\* The records a drop of the caller may be given: those of the held handle
\* and of the first and the last kept handle.
DropTargets ==
    (IF handles.held = None THEN {} ELSE {handles.held[1]})
    \cup (IF handles.kept = <<>> THEN {}
          ELSE {handles.kept[1], handles.kept[Len(handles.kept)]})

\* The pool after NodeData::new in this state has the effect claimed: the
\* head record is taken and len goes down by one when the list is not
\* empty; a record that did not exist is made only when it is empty.
CreationEffect ==
    LET made == NodeData_new(PoolState, "Root", 0)
    IN  IF free_list.first_free # <<>>
        THEN /\ made.node = Head(free_list.first_free)
             /\ made.s.free_list.first_free = Tail(free_list.first_free)
             /\ made.s.free_list.len = free_list.len - 1
             /\ DOMAIN made.s.records = DOMAIN records
             /\ made.s.records[made.node] = NodeData("Root", 0, 1)
        ELSE /\ made.node \notin DOMAIN records
             /\ DOMAIN made.s.records = DOMAIN records \cup {made.node}
             /\ made.s.records[made.node] = NodeData("Root", 0, 1)
             /\ made.s.free_list = free_list

\* The records that the drop of a handle to id releases, the record itself
\* first: id when the handle is its last reference, and then each ancestor
\* whose only reference is the parent handle of the record before it.
Released(id) ==
    LET chain == ChainUp(records, id)
        shared == {i \in 1..Len(chain) : records[chain[i]].strong # 1}
        n == IF shared = {} THEN Len(chain)
             ELSE (CHOOSE i \in shared : \A j \in shared : i <= j) - 1
    IN  SubSeq(chain, 1, n)

References(id) ==
    (IF handles.held = Some(id) THEN 1 ELSE 0)
    + Cardinality({i \in DOMAIN handles.kept : handles.kept[i] = id})
    + Cardinality({r \in DOMAIN records : records[r].parent = id})
    + Cardinality({i \in DOMAIN free_list.first_free :
                      free_list.first_free[i] = id})

\* The record of a handle and its ancestors, as far as each has no other
\* reference than the handle or the parent handle of the one before it.
Unshared(id) ==
    LET chain == ChainUp(records, id)
        shared == {i \in 1..Len(chain) : References(chain[i]) # 1}
        n == IF shared = {} THEN Len(chain)
             ELSE (CHOOSE i \in shared : \A j \in shared : i <= j) - 1
    IN  SubSeq(chain, 1, n)

\* C22: the drop of the last handle to an overlay node releases, in the
\* same drop, its record and every ancestor record that no other handle
\* refers to: each is linked onto the pool as Free or freed, the ancestors
\* before the node itself (a linked ancestor lies behind its descendants in
\* the list, and a freed one has only freed records below it); the records
\* with another reference keep their kind.  So when the caller has no
\* handle, no record is Root or Child and no root green node is retained.
C22_DropReleasesUnsharedAncestors ==
    /\ Handled = {} => \A r \in DOMAIN records : ~Live(r)
    /\ ~UnderConstruction =>
          \A id \in DropTargets :
             LET dropped == SyntaxNode_drop(PoolState, id)
                 gone == Unshared(id)
                 on_list == dropped.free_list.first_free
                 linked(x) == x \in DOMAIN dropped.records
                 at(x) == IF x \in Range(on_list)
                          THEN CHOOSE k \in DOMAIN on_list : on_list[k] = x
                          ELSE 0
             IN  /\ ~dropped.failed
                 /\ \A i \in DOMAIN gone :
                       IF linked(gone[i])
                       THEN /\ dropped.records[gone[i]].kind = "Free"
                            /\ at(gone[i]) > 0
                            /\ \A j \in DOMAIN gone :
                                  j > i => /\ linked(gone[j])
                                           /\ at(gone[i]) < at(gone[j])
                       ELSE \A j \in 1..i : ~linked(gone[j])
                 /\ \A r \in DOMAIN records \ Range(gone) :
                       /\ r \in DOMAIN dropped.records
                       /\ dropped.records[r].kind = records[r].kind
                       /\ dropped.records[r].parent = records[r].parent

\* C22 witness: the held handle is the only one, to a node with the most
\* ancestors; its drop releases the record and all its ancestors into the
\* pool and leaves no Root or Child record.
C22_Witness ==
    /\ handles.held # None /\ handles.kept = <<>>
    /\ Len(Unshared(handles.held[1])) = MaxDepth
    /\ LET dropped == SyntaxNode_drop(PoolState, handles.held[1])
       IN  /\ dropped.free_list.len = free_list.len + MaxDepth
           /\ \A r \in DOMAIN dropped.records :
                 dropped.records[r].kind = "Free"
====
